---- MODULE Spec2Model ----
(***************************************************************************)
(* Model of the policy-impact calculation engine of                        *)
(* src/lib/services/impact-calculator.ts: the tokenizer, the recursive     *)
(* descent parser/evaluator (evaluateExpression) and calculateImpact.      *)
(*                                                                         *)
(* Strings are sequences of one-character strings, so that the tokenizer   *)
(* scans expressions character by character as the code does.  JavaScript  *)
(* numbers are exact rationals n/d plus the values NaN, +Infinity and      *)
(* -Infinity and a signed zero; binary rounding of IEEE doubles is not     *)
(* modelled.  A value that is not a primitive number (a function or object *)
(* read through the prototype chain, a string built by +, a Number wrapper *)
(* object) is carried as such, because the code's typeof / === checks      *)
(* tell it apart from a number.                                            *)
(***************************************************************************)
EXTENDS Integers, Sequences, FiniteSets, TLC

(***************************************************************************)
(* Names: profile fields, function names, inherited property names.        *)
(***************************************************************************)
household_income == <<"h", "o", "u", "s", "e", "h", "o", "l", "d", "_", "i", "n", "c", "o", "m", "e">>
individual_income == <<"i", "n", "d", "i", "v", "i", "d", "u", "a", "l", "_", "i", "n", "c", "o", "m", "e">>
annual_housing_payment == <<"a", "n", "n", "u", "a", "l", "_", "h", "o", "u", "s", "i", "n", "g", "_", "p", "a", "y", "m", "e", "n", "t">>
state == <<"s", "t", "a", "t", "e">>
is_gig_worker == <<"i", "s", "_", "g", "i", "g", "_", "w", "o", "r", "k", "e", "r">>
\* the other fields of UserProfile that the calculator reads or labels
ProfileField ==
  [ age |->
      <<"a", "g", "e">>,
    household_size |->
      <<"h", "o", "u", "s", "e", "h", "o", "l", "d", "_", "s", "i", "z", "e">>,
    student_loan_balance |->
      <<"s", "t", "u", "d", "e", "n", "t", "_", "l", "o", "a", "n", "_", "b", "a", "l", "a", "n", "c", "e">>,
    other_debts |->
      <<"o", "t", "h", "e", "r", "_", "d", "e", "b", "t", "s">>,
    dependents_covered |->
      <<"d", "e", "p", "e", "n", "d", "e", "n", "t", "s", "_", "c", "o", "v", "e", "r", "e", "d">>,
    tax_filing_status |->
      <<"t", "a", "x", "_", "f", "i", "l", "i", "n", "g", "_", "s", "t", "a", "t", "u", "s">>,
    employment_status |->
      <<"e", "m", "p", "l", "o", "y", "m", "e", "n", "t", "_", "s", "t", "a", "t", "u", "s">>,
    insurance_status |->
      <<"i", "n", "s", "u", "r", "a", "n", "c", "e", "_", "s", "t", "a", "t", "u", "s">>,
    student_status |->
      <<"s", "t", "u", "d", "e", "n", "t", "_", "s", "t", "a", "t", "u", "s">>,
    rent_vs_own |->
      <<"r", "e", "n", "t", "_", "v", "s", "_", "o", "w", "n">>,
    retirement_accounts |->
      <<"r", "e", "t", "i", "r", "e", "m", "e", "n", "t", "_", "a", "c", "c", "o", "u", "n", "t", "s">>,
    investment_accounts |->
      <<"i", "n", "v", "e", "s", "t", "m", "e", "n", "t", "_", "a", "c", "c", "o", "u", "n", "t", "s">>,
    home_equity |->
      <<"h", "o", "m", "e", "_", "e", "q", "u", "i", "t", "y">>,
    planning_home_purchase |->
      <<"p", "l", "a", "n", "n", "i", "n", "g", "_", "h", "o", "m", "e", "_", "p", "u", "r", "c", "h", "a", "s", "e">>,
    planning_retirement_soon |->
      <<"p", "l", "a", "n", "n", "i", "n", "g", "_", "r", "e", "t", "i", "r", "e", "m", "e", "n", "t", "_", "s", "o", "o", "n">>,
    planning_children |->
      <<"p", "l", "a", "n", "n", "i", "n", "g", "_", "c", "h", "i", "l", "d", "r", "e", "n">>,
    planning_start_business |->
      <<"p", "l", "a", "n", "n", "i", "n", "g", "_", "s", "t", "a", "r", "t", "_", "b", "u", "s", "i", "n", "e", "s", "s">>,
    is_union_member |->
      <<"i", "s", "_", "u", "n", "i", "o", "n", "_", "m", "e", "m", "b", "e", "r">>,
    is_small_business_owner |->
      <<"i", "s", "_", "s", "m", "a", "l", "l", "_", "b", "u", "s", "i", "n", "e", "s", "s", "_", "o", "w", "n", "e", "r">> ]

fn_min == <<"m", "i", "n">>
fn_max == <<"m", "a", "x">>
fn_abs == <<"a", "b", "s">>
fn_round == <<"r", "o", "u", "n", "d">>
fn_floor == <<"f", "l", "o", "o", "r">>
fn_ceil == <<"c", "e", "i", "l">>

\* Properties every plain object inherits from Object.prototype (a sample:
\* hasOwnProperty, isPrototypeOf, toLocaleString ... behave as toString).
constructor == <<"c", "o", "n", "s", "t", "r", "u", "c", "t", "o", "r">>
toString == <<"t", "o", "S", "t", "r", "i", "n", "g">>
valueOf == <<"v", "a", "l", "u", "e", "O", "f">>
ObjectPrototypeKeys == {constructor, toString, valueOf}

Digits == {"0", "1", "2", "3", "4", "5", "6", "7", "8", "9"}
DigitSeq == <<"0", "1", "2", "3", "4", "5", "6", "7", "8", "9">>
UpperSeq == <<"A", "B", "C", "D", "E", "F", "G", "H", "I", "J", "K", "L", "M", "N", "O", "P", "Q", "R", "S", "T", "U", "V", "W", "X", "Y", "Z">>
LowerSeq == <<"a", "b", "c", "d", "e", "f", "g", "h", "i", "j", "k", "l", "m", "n", "o", "p", "q", "r", "s", "t", "u", "v", "w", "x", "y", "z">>

(***************************************************************************)
(* Character classes of the tokenizer's regular expressions.               *)
(***************************************************************************)
WhitespaceChars == {" ", "\t", "\n", "\r"}
IdentStartChars ==
  {LowerSeq[n] : n \in 1..26} \cup {UpperSeq[n] : n \in 1..26} \cup {"_"}
IdentPartChars == IdentStartChars \cup Digits
LowerChar(c) ==
  IF \E n \in 1..26 : UpperSeq[n] = c
    THEN LowerSeq[CHOOSE i \in 1..26 : UpperSeq[i] = c]
    ELSE c
toLowerCase(s) == [i \in 1..Len(s) |-> LowerChar(s[i])]

(***************************************************************************)
(* JavaScript values.  k is the kind: "num" (the finite number             *)
(* n/d * 10^(307 * h) with h in -1..1; zero is n = 0 with d = 1 for +0 and *)
(* d = -1 for -0, and h = 0), "inf" (n = 1 or -1), "nan",                  *)
(* "obj" (a function, a plain object or a non-numeric string: ToNumber     *)
(* gives NaN and + gives a string), "null", "undefined".  boxed marks a    *)
(* Number wrapper object, as made by Object(x).                            *)
(***************************************************************************)
Sgn(n) == IF n > 0 THEN 1 ELSE IF n < 0 THEN -1 ELSE 0
AbsInt(n) == IF n < 0 THEN -n ELSE n
RECURSIVE GCD(_, _)
GCD(a, b) == IF b = 0 THEN a ELSE GCD(b, a % b)

Val(k, n, d) == [k |-> k, n |-> n, d |-> d, h |-> 0, boxed |-> FALSE]
Zero(sign) == Val("num", 0, sign)
Num(n, d) ==
  IF n = 0 THEN Zero(1)
  ELSE LET s == IF d < 0 THEN -1 ELSE 1
           g == GCD(AbsInt(n), AbsInt(d))
       IN Val("num", (s * n) \div g, (s * d) \div g)
Whole(n) == Num(n, 1)
Inf(sign) == Val("inf", sign, 0)
\* v * 10^(307 * h) as a double, for a finite v with h = 0: beyond
\* Number.MAX_VALUE (1.797...e308, taken as 18e307) it is an infinity, and
\* below the smallest double it is a zero
Scaled(v, h) ==
  IF v.n = 0 THEN v
  ELSE IF h >= 2 \/ (h = 1 /\ AbsInt(v.n) >= 18 * v.d) THEN Inf(Sgn(v.n))
  ELSE IF h <= -2 THEN Zero(Sgn(v.n))
  ELSE [v EXCEPT !.h = h]
NaN == Val("nan", 0, 0)
NonNumber == Val("obj", 0, 0)
Null == Val("null", 0, 0)
Undefined == Val("undefined", 0, 0)
Str(chars) == [k |-> "str", s |-> chars]
Bool(b) == [k |-> "boolean", b |-> b]
Boxed(v) == [v EXCEPT !.boxed = TRUE]

IsZero(v) == v.k = "num" /\ v.n = 0
SignOf(v) == IF v.k = "inf" \/ v.n # 0 THEN Sgn(v.n) ELSE v.d
Den(v) == IF IsZero(v) THEN 1 ELSE v.d
\* typeof v === 'number'
IsNumberType(v) == v.k \in {"num", "inf", "nan"} /\ ~v.boxed
\* ToNumber of a value that reaches arithmetic
ToNumber(v) == IF v.k \in {"num", "inf", "nan"} THEN [v EXCEPT !.boxed = FALSE] ELSE NaN
\* v === 0 (both zeros; a wrapper object is never === a number)
StrictEqualsZero(v) == IsZero(v) /\ ~v.boxed
\* a < b
NumLess(a, b) ==
  CASE a.k = "nan" \/ b.k = "nan" -> FALSE
    [] a.k = "inf" -> a.n = -1 /\ ~(b.k = "inf" /\ b.n = -1)
    [] b.k = "inf" -> b.n = 1
    [] Sgn(a.n) # Sgn(b.n) -> Sgn(a.n) < Sgn(b.n)
    [] a.h # b.h -> IF a.n > 0 THEN a.h < b.h ELSE a.h > b.h
    [] OTHER -> a.n * Den(b) < b.n * Den(a)

NumNeg(a) ==
  CASE a.k = "nan" -> NaN
    [] a.k = "inf" -> Inf(-a.n)
    [] IsZero(a) -> Zero(-a.d)
    [] OTHER -> [a EXCEPT !.n = -a.n]
NumAdd(a, b) ==
  CASE a.k = "nan" \/ b.k = "nan" -> NaN
    [] a.k = "inf" /\ b.k = "inf" -> IF a.n = b.n THEN a ELSE NaN
    [] a.k = "inf" -> a
    [] b.k = "inf" -> b
    [] IsZero(a) /\ IsZero(b) -> Zero(IF a.d = -1 /\ b.d = -1 THEN -1 ELSE 1)
    [] IsZero(a) -> b
    [] IsZero(b) -> a
    \* the sum of two numbers 10^307 apart is the larger one
    [] a.h > b.h -> a
    [] a.h < b.h -> b
    [] OTHER -> Scaled(Num(a.n * b.d + b.n * a.d, a.d * b.d), a.h)
NumMul(a, b) ==
  CASE a.k = "nan" \/ b.k = "nan" -> NaN
    [] a.k = "inf" \/ b.k = "inf" ->
         IF IsZero(a) \/ IsZero(b) THEN NaN ELSE Inf(SignOf(a) * SignOf(b))
    [] IsZero(a) \/ IsZero(b) -> Zero(SignOf(a) * SignOf(b))
    [] OTHER -> Scaled(Num(a.n * b.n, a.d * b.d), a.h + b.h)
NumDiv(a, b) ==
  CASE a.k = "nan" \/ b.k = "nan" -> NaN
    [] a.k = "inf" -> IF b.k = "inf" THEN NaN ELSE Inf(SignOf(a) * SignOf(b))
    [] b.k = "inf" -> Zero(SignOf(a) * SignOf(b))
    [] IsZero(b) -> IF IsZero(a) THEN NaN ELSE Inf(SignOf(a) * SignOf(b))
    [] IsZero(a) -> Zero(SignOf(a) * SignOf(b))
    [] OTHER -> Scaled(Num(a.n * b.d, a.d * b.n), a.h - b.h)

\* The operators as the parser applies them to whatever its operands are.
JsAdd(a, b) ==
  IF a.k = "obj" \/ b.k = "obj" THEN NonNumber
  ELSE NumAdd(ToNumber(a), ToNumber(b))
JsSub(a, b) == NumAdd(ToNumber(a), NumNeg(ToNumber(b)))
JsMul(a, b) == NumMul(ToNumber(a), ToNumber(b))
JsDiv(a, b) == NumDiv(ToNumber(a), ToNumber(b))
JsNeg(a) == NumNeg(ToNumber(a))

(***************************************************************************)
(* The Math functions of MATH_FUNCTIONS, and Object, which the lookup      *)
(* MATH_FUNCTIONS['constructor'] reaches through the prototype chain.      *)
(***************************************************************************)
RECURSIVE MathMinFrom(_, _, _)
MathMinFrom(args, i, acc) ==
  IF i > Len(args) THEN acc
  ELSE LET x == ToNumber(args[i]) IN
    IF x.k = "nan" \/ acc.k = "nan" THEN MathMinFrom(args, i + 1, NaN)
    ELSE IF NumLess(x, acc) \/ (IsZero(x) /\ IsZero(acc) /\ x.d = -1)
      THEN MathMinFrom(args, i + 1, x)
      ELSE MathMinFrom(args, i + 1, acc)
MathMin(args) == MathMinFrom(args, 1, Inf(1))
RECURSIVE MathMaxFrom(_, _, _)
MathMaxFrom(args, i, acc) ==
  IF i > Len(args) THEN acc
  ELSE LET x == ToNumber(args[i]) IN
    IF x.k = "nan" \/ acc.k = "nan" THEN MathMaxFrom(args, i + 1, NaN)
    ELSE IF NumLess(acc, x) \/ (IsZero(x) /\ IsZero(acc) /\ x.d = 1)
      THEN MathMaxFrom(args, i + 1, x)
      ELSE MathMaxFrom(args, i + 1, acc)
MathMax(args) == MathMaxFrom(args, 1, Inf(-1))
FirstArg(args) == IF Len(args) = 0 THEN NaN ELSE ToNumber(args[1])
MathAbsNum(x) ==
  CASE x.k = "nan" -> NaN
    [] x.k = "inf" -> Inf(1)
    [] IsZero(x) -> Zero(1)
    [] OTHER -> [x EXCEPT !.n = AbsInt(x.n)]
MathFloorNum(x) ==
  IF x.k # "num" \/ IsZero(x) \/ x.h = 1 THEN x
  ELSE IF x.h = -1 THEN (IF x.n > 0 THEN Zero(1) ELSE Whole(-1))
  ELSE LET q == x.n \div x.d IN IF q = 0 THEN Zero(1) ELSE Whole(q)
MathCeilNum(x) ==
  IF x.k # "num" \/ IsZero(x) \/ x.h = 1 THEN x
  ELSE IF x.h = -1 THEN (IF x.n > 0 THEN Whole(1) ELSE Zero(-1))
  ELSE LET q == -((-x.n) \div x.d) IN IF q = 0 THEN Zero(Sgn(x.n)) ELSE Whole(q)
\* Math.round rounds halves towards +Infinity: floor(x + 1/2)
MathRoundNum(x) ==
  IF x.k # "num" \/ IsZero(x) \/ x.h = 1 THEN x
  ELSE IF x.h = -1 THEN Zero(Sgn(x.n))
  ELSE LET q == (2 * x.n + x.d) \div (2 * x.d) IN
       IF q = 0 THEN Zero(Sgn(x.n)) ELSE Whole(q)
\* Object(x): a Number wrapper for a primitive number, x itself for an
\* object, a fresh plain object for no argument.
ObjectCall(args) ==
  IF Len(args) = 0 THEN NonNumber
  ELSE IF IsNumberType(args[1]) THEN Boxed(args[1]) ELSE args[1]

MATH_FUNCTIONS == {fn_min, fn_max, fn_abs, fn_round, fn_floor, fn_ceil}
\* key in obj, for an object literal with the given own keys
InObject(key, ownKeys) == key \in ownKeys \/ key \in ObjectPrototypeKeys
\* MATH_FUNCTIONS[funcName](...args)
ApplyMathFunction(funcName, args) ==
  CASE funcName = fn_min -> MathMin(args)
    [] funcName = fn_max -> MathMax(args)
    [] funcName = fn_abs -> MathAbsNum(FirstArg(args))
    [] funcName = fn_round -> MathRoundNum(FirstArg(args))
    [] funcName = fn_floor -> MathFloorNum(FirstArg(args))
    [] funcName = fn_ceil -> MathCeilNum(FirstArg(args))
    [] funcName = constructor -> ObjectCall(args)
    [] OTHER -> NonNumber

(***************************************************************************)
(* parseFloat: leading white space, an optional sign, digits with at most  *)
(* one decimal point; the longest such prefix is the value and no digit at *)
(* all gives NaN.  (Exponents and the literal Infinity are not modelled;   *)
(* no input of this model contains them.)                                  *)
(***************************************************************************)
RECURSIVE SkipWhile(_, _, _)
SkipWhile(s, i, chars) ==
  IF i <= Len(s) /\ s[i] \in chars THEN SkipWhile(s, i + 1, chars) ELSE i
DigitVal(c) == (CHOOSE i \in 1..10 : DigitSeq[i] = c) - 1
RECURSIVE DigitsValue(_, _, _)
DigitsValue(s, i, j) ==
  IF j < i THEN 0 ELSE 10 * DigitsValue(s, i, j - 1) + DigitVal(s[j])
RECURSIVE Pow10(_)
Pow10(e) == IF e = 0 THEN 1 ELSE 10 * Pow10(e - 1)
parseFloat(s) ==
  LET a == SkipWhile(s, 1, WhitespaceChars)
      neg == a <= Len(s) /\ s[a] = "-"
      b == IF a <= Len(s) /\ s[a] \in {"+", "-"} THEN a + 1 ELSE a
      c == SkipWhile(s, b, Digits)
      hasDot == c <= Len(s) /\ s[c] = "."
      e == IF hasDot THEN SkipWhile(s, c + 1, Digits) ELSE c
      nInt == c - b
      nFrac == IF hasDot THEN e - (c + 1) ELSE 0
      mag == Num(DigitsValue(s, b, c - 1) * Pow10(nFrac)
                   + (IF hasDot THEN DigitsValue(s, c + 1, e - 1) ELSE 0),
                 Pow10(nFrac))
  IN IF nInt + nFrac = 0 THEN NaN
     ELSE IF neg THEN NumNeg(mag) ELSE mag

(***************************************************************************)
(* tokenize                                                                *)
(***************************************************************************)
NumberToken(v) == [type |-> "number", value |-> v]
OperatorToken(c) == [type |-> "operator", value |-> c]
ParenToken(c) == [type |-> "paren", value |-> c]
CommaToken == [type |-> "comma"]
FunctionToken(name) == [type |-> "function", value |-> name]
TokenizeFailure(why) == [ok |-> FALSE, tokens |-> << >>, why |-> why]

\* variables is the numeric variable object; a missing own key is read
\* through the prototype chain.
RECURSIVE tokenizeFrom(_, _, _, _)
tokenizeFrom(expression, variables, i, tokens) ==
  IF i > Len(expression) THEN [ok |-> TRUE, tokens |-> tokens, why |-> "none"]
  ELSE LET char == expression[i] IN
    CASE (char \in WhitespaceChars) -> tokenizeFrom(expression, variables, i + 1, tokens)
      [] (char \in Digits)
           \/ (char = "." /\ i + 1 <= Len(expression) /\ (expression[i + 1] \in Digits)) ->
           LET j == SkipWhile(expression, i, Digits \cup {"."})
               value == parseFloat(SubSeq(expression, i, j - 1))
           IN IF value.k = "nan" THEN TokenizeFailure("number")
              ELSE tokenizeFrom(expression, variables, j,
                                Append(tokens, NumberToken(value)))
      [] char \in {"+", "-", "*", "/"} ->
           tokenizeFrom(expression, variables, i + 1,
                        Append(tokens, OperatorToken(char)))
      [] char \in {"(", ")"} ->
           tokenizeFrom(expression, variables, i + 1,
                        Append(tokens, ParenToken(char)))
      [] char = "," ->
           tokenizeFrom(expression, variables, i + 1, Append(tokens, CommaToken))
      [] (char \in IdentStartChars) ->
           LET j == SkipWhile(expression, i, IdentPartChars)
               ident == SubSeq(expression, i, j - 1)
           IN IF InObject(toLowerCase(ident), MATH_FUNCTIONS)
                THEN tokenizeFrom(expression, variables, j,
                                  Append(tokens, FunctionToken(toLowerCase(ident))))
              ELSE IF InObject(ident, DOMAIN variables)
                THEN tokenizeFrom(expression, variables, j,
                       Append(tokens, NumberToken(
                         IF ident \in DOMAIN variables
                           THEN variables[ident] ELSE NonNumber)))
              ELSE TokenizeFailure("unknown identifier")
      [] OTHER -> TokenizeFailure("invalid character")
tokenize(expression, variables) == tokenizeFrom(expression, variables, 1, << >>)

(***************************************************************************)
(* SafeExpressionParser.  pos is the index of the next token (from 1); a   *)
(* parse function returns the value and the cursor, or the thrown error.   *)
(* divByZero is bookkeeping for the properties (the code keeps no such     *)
(* flag): some '/' met so far had a right operand whose numeric value is   *)
(* zero.                                                                   *)
(***************************************************************************)
Parsed(v, pos, dz) ==
  [ok |-> TRUE, value |-> v, pos |-> pos, error |-> "none", divByZero |-> dz]
Thrown(msg, pos, dz) ==
  [ok |-> FALSE, value |-> NaN, pos |-> pos, error |-> msg, divByZero |-> dz]
After(r, dz) == [r EXCEPT !.divByZero = @ \/ dz]
HasToken(tokens, pos) == pos <= Len(tokens)
PeekIsOperator(tokens, pos, ops) ==
  /\ HasToken(tokens, pos)
  /\ tokens[pos].type = "operator"
  /\ tokens[pos].value \in ops
\* expect(type): consumes one token and throws unless it has that type
expect(tokens, pos, type) ==
  IF HasToken(tokens, pos) /\ tokens[pos].type = type
    THEN Parsed(NaN, pos + 1, FALSE)
    ELSE Thrown("Expected " \o type, pos + 1, FALSE)

\* The parse functions hand each sub-result to the operator that continues
\* with it, so that a sub-parse is written once: a thrown error (ok = FALSE)
\* passes through every continuation unchanged but for the flag.
RECURSIVE parseExpression(_, _), parseExpressionLoop(_, _), parseTerm(_, _),
          parseTermLoop(_, _), parseFactor(_, _), parseArgs(_, _)

\* left = op === '+' ? left + right : left - right
Additive(left, op, right) ==
  IF ~right.ok THEN After(right, left.divByZero)
  ELSE Parsed(IF op = "+" THEN JsAdd(left.value, right.value)
                          ELSE JsSub(left.value, right.value),
              right.pos, left.divByZero \/ right.divByZero)
\* the while loop of parseExpression; left is the running result
parseExpressionLoop(tokens, left) ==
  IF left.ok /\ PeekIsOperator(tokens, left.pos, {"+", "-"})
    THEN parseExpressionLoop(tokens,
           Additive(left, tokens[left.pos].value, parseTerm(tokens, left.pos + 1)))
    ELSE left
parseExpression(tokens, pos) ==
  parseExpressionLoop(tokens, parseTerm(tokens, pos))

\* if (op === '/') { if (right === 0) throw ...; left = left / right }
\* else left = left * right
Multiplicative(left, op, right) ==
  IF ~right.ok THEN After(right, left.divByZero)
  ELSE IF op = "/"
    THEN IF StrictEqualsZero(right.value)
           THEN Thrown("Division by zero", right.pos, TRUE)
           ELSE Parsed(JsDiv(left.value, right.value), right.pos,
                       left.divByZero \/ right.divByZero
                         \/ IsZero(ToNumber(right.value)))
    ELSE Parsed(JsMul(left.value, right.value), right.pos,
                left.divByZero \/ right.divByZero)
\* the while loop of parseTerm
parseTermLoop(tokens, left) ==
  IF left.ok /\ PeekIsOperator(tokens, left.pos, {"*", "/"})
    THEN parseTermLoop(tokens,
           Multiplicative(left, tokens[left.pos].value,
                          parseFactor(tokens, left.pos + 1)))
    ELSE left
parseTerm(tokens, pos) == parseTermLoop(tokens, parseFactor(tokens, pos))

\* return -this.parseFactor()
Negated(f) == IF ~f.ok THEN f ELSE Parsed(JsNeg(f.value), f.pos, f.divByZero)
\* this.expect('paren') after a parsed result, which is then returned
ThenExpectParen(tokens, result) ==
  IF ~result.ok THEN result
  ELSE IF ~expect(tokens, result.pos, "paren").ok
    THEN After(expect(tokens, result.pos, "paren"), result.divByZero)
  ELSE Parsed(result.value, result.pos + 1, result.divByZero)
\* args.push(this.parseExpression()); args.value is the list so far
PushArg(args, a) ==
  IF ~a.ok THEN After(a, args.divByZero)
  ELSE Parsed(Append(args.value, a.value), a.pos, args.divByZero \/ a.divByZero)
\* while (peek is a comma) { consume; args.push(parseExpression()) }
parseArgs(tokens, args) ==
  IF args.ok /\ HasToken(tokens, args.pos) /\ tokens[args.pos].type = "comma"
    THEN parseArgs(tokens, PushArg(args, parseExpression(tokens, args.pos + 1)))
    ELSE args
PeekIsClosingParen(tokens, pos) ==
  /\ HasToken(tokens, pos)
  /\ tokens[pos].type = "paren"
  /\ tokens[pos].value = ")"
\* the call: func = MATH_FUNCTIONS[funcName]; if (!func) throw; func(...args)
CallFunction(funcName, args) ==
  IF ~args.ok THEN args
  ELSE IF ~InObject(funcName, MATH_FUNCTIONS)
    THEN Thrown("Unknown function", args.pos, args.divByZero)
  ELSE Parsed(ApplyMathFunction(funcName, args.value), args.pos, args.divByZero)
\* the argument list between the parentheses; opening is the result of
\* expect('paren') for the opening parenthesis
parseArgumentList(tokens, opening) ==
  IF ~opening.ok THEN opening
  ELSE IF PeekIsClosingParen(tokens, opening.pos)
    THEN Parsed(<< >>, opening.pos, FALSE)
  ELSE parseArgs(tokens,
         PushArg(Parsed(<< >>, opening.pos, FALSE),
                 parseExpression(tokens, opening.pos)))

parseFactor(tokens, pos) ==
  IF ~HasToken(tokens, pos) THEN Thrown("Unexpected end of expression", pos, FALSE)
  ELSE
    CASE tokens[pos].type = "operator" /\ tokens[pos].value = "-" ->
           Negated(parseFactor(tokens, pos + 1))
      [] tokens[pos].type = "operator" /\ tokens[pos].value = "+" ->
           parseFactor(tokens, pos + 1)
      [] tokens[pos].type = "number" -> Parsed(tokens[pos].value, pos + 1, FALSE)
      [] tokens[pos].type = "paren" /\ tokens[pos].value = "(" ->
           ThenExpectParen(tokens, parseExpression(tokens, pos + 1))
      [] tokens[pos].type = "function" ->
           CallFunction(tokens[pos].value,
             ThenExpectParen(tokens,
               parseArgumentList(tokens, expect(tokens, pos + 1, "paren"))))
      [] OTHER -> Thrown("Unexpected token", pos, FALSE)

\* variant: what follows the parsed expression is ignored
ThenIgnoreRest(tokens, result) == result
\* if (this.pos < this.tokens.length) throw
ThenExpectEnd(tokens, result) ==
  IF ~result.ok THEN result
  ELSE IF result.pos <= Len(tokens)
    THEN Thrown("Unexpected tokens after expression", result.pos, result.divByZero)
  ELSE result
parse(tokens) == ThenExpectEnd(tokens, parseExpression(tokens, 1))

(***************************************************************************)
(* evaluateExpression.  EvaluateOutcome keeps, beside the returned value   *)
(* (a number or Null), the stage at which the evaluation ended.            *)
(***************************************************************************)
\* the numericVariables object: strings go through parseFloat, NaN is left out
NumericValue(value) == IF value.k = "str" THEN parseFloat(value.s) ELSE value
numericVariables(variables) ==
  LET keys == {key \in DOMAIN variables : NumericValue(variables[key]).k # "nan"}
  IN [key \in keys |-> NumericValue(variables[key])]
\* the checks on the parser's result, and the catch of what it threw
\* variant: what the parser threw comes back as NaN instead of null
CheckedResultNaN(result) ==
  IF ~result.ok
    THEN [value |-> NaN, stage |-> "parse", error |-> result.error,
          divByZero |-> result.divByZero]
  ELSE IF ~IsNumberType(result.value) \/ result.value.k # "num"
    THEN [value |-> Null, stage |-> "check", error |-> "not a finite number",
          divByZero |-> result.divByZero]
  ELSE [value |-> result.value, stage |-> "ok", error |-> "none",
        divByZero |-> result.divByZero]
CheckedResult(result) ==
  IF ~result.ok
    THEN [value |-> Null, stage |-> "parse", error |-> result.error,
          divByZero |-> result.divByZero]
  ELSE IF ~IsNumberType(result.value) \/ result.value.k # "num"
    THEN [value |-> Null, stage |-> "check", error |-> "not a finite number",
          divByZero |-> result.divByZero]
  ELSE [value |-> result.value, stage |-> "ok", error |-> "none",
        divByZero |-> result.divByZero]
EvaluateTokens(tokens) ==
  IF ~tokens.ok
    THEN [value |-> Null, stage |-> "tokenize", error |-> tokens.why,
          divByZero |-> FALSE]
  ELSE CheckedResult(parse(tokens.tokens))
EvaluateOutcome(expression, variables) ==
  EvaluateTokens(tokenize(expression, numericVariables(variables)))
evaluateExpression(expression, variables) ==
  EvaluateOutcome(expression, variables).value

(***************************************************************************)
(* Objects.  An object literal is a function from its own keys; a key it   *)
(* lacks is read through the prototype chain (Object.prototype holds       *)
(* functions), and is undefined beyond that.                               *)
(***************************************************************************)
GetProperty(obj, key) ==
  IF key \in DOMAIN obj THEN obj[key]
  ELSE IF key \in ObjectPrototypeKeys THEN NonNumber
  ELSE Undefined
Truthy(v) ==
  CASE v.k = "str" -> v.s # << >>
    [] v.k = "boolean" -> v.b
    [] v.k \in {"undefined", "null", "nan"} -> FALSE
    [] v.k = "num" -> v.boxed \/ v.n # 0
    [] OTHER -> TRUE
\* value != null
NotNullish(v) == v.k \notin {"undefined", "null"}

(***************************************************************************)
(* checkRequiredInputs and extractProfileVariables                         *)
(***************************************************************************)
NumericProfileFields ==
  { household_income, individual_income, ProfileField.age, ProfileField.household_size,
    annual_housing_payment, ProfileField.student_loan_balance, ProfileField.other_debts,
    ProfileField.dependents_covered, ProfileField.retirement_accounts, ProfileField.investment_accounts, ProfileField.home_equity }
StringProfileFields ==
  { state, ProfileField.tax_filing_status, ProfileField.employment_status, ProfileField.insurance_status,
    ProfileField.student_status, ProfileField.rent_vs_own }
BooleanProfileFields ==
  { ProfileField.planning_home_purchase, ProfileField.planning_retirement_soon, ProfileField.planning_children,
    ProfileField.planning_start_business, is_gig_worker, ProfileField.is_union_member,
    ProfileField.is_small_business_owner }
\* the fields of UserProfile that extractProfileVariables never reads are
\* represented by city
ProfileFields ==
  NumericProfileFields \cup StringProfileFields \cup BooleanProfileFields
    \cup {<<"c", "i", "t", "y">>}

FIELD_LABELS ==
  (household_income :> "Household Income")
  @@ (individual_income :> "Individual Income")
  @@ (ProfileField.age :> "Age")
  @@ (state :> "State")
  @@ (ProfileField.household_size :> "Household Size")
  @@ (ProfileField.tax_filing_status :> "Tax Filing Status")
  @@ (ProfileField.employment_status :> "Employment Status")
  @@ (ProfileField.insurance_status :> "Insurance Status")
  @@ (ProfileField.student_status :> "Student Status")
  @@ (ProfileField.rent_vs_own :> "Housing Status")
  @@ (annual_housing_payment :> "Annual Housing Payment")
  @@ (ProfileField.student_loan_balance :> "Student Loan Balance")
  @@ (ProfileField.retirement_accounts :> "Retirement Accounts")
  @@ (ProfileField.investment_accounts :> "Investment Accounts")
  @@ (ProfileField.home_equity :> "Home Equity")
  @@ (ProfileField.planning_home_purchase :> "Planning Home Purchase")
  @@ (ProfileField.planning_retirement_soon :> "Planning Retirement Soon")
  @@ (ProfileField.planning_children :> "Planning Children")
  @@ (ProfileField.planning_start_business :> "Planning to Start Business")
  @@ (is_gig_worker :> "Gig Worker")
  @@ (ProfileField.is_union_member :> "Union Member")
  @@ (ProfileField.is_small_business_owner :> "Small Business Owner")
\* FIELD_LABELS[input] || input
FieldLabel(input) ==
  IF input \in DOMAIN FIELD_LABELS
    THEN [label |-> FIELD_LABELS[input]]
    ELSE [raw |-> input]

\* value === undefined || value === null || value === ''
\* variant: every falsy value counts as missing
IsMissingValueFalsy(value) == ~Truthy(value)
IsMissingValue(value) ==
  \/ value.k \in {"undefined", "null"}
  \/ (value.k = "str" /\ value.s = << >>)
MissingInput(input) ==
  [ field |-> input,
    fieldLabel |-> FieldLabel(input),
    reason |-> "Required for impact calculation",
    impact |-> "Cannot compute accurate impact without this information",
    isRequired |-> TRUE ]
RECURSIVE checkRequiredInputsFrom(_, _, _, _)
checkRequiredInputsFrom(profile, requiredInputs, j, missing) ==
  IF j > Len(requiredInputs) THEN missing
  ELSE LET input == requiredInputs[j]
           value == GetProperty(profile, input)
       IN checkRequiredInputsFrom(profile, requiredInputs, j + 1,
            IF IsMissingValue(value)
              THEN Append(missing, MissingInput(input))
              ELSE missing)
checkRequiredInputs(profile, requiredInputs) ==
  checkRequiredInputsFrom(profile, requiredInputs, 1, << >>)

extractProfileVariables(profile) ==
  LET keys ==
        {f \in NumericProfileFields : NotNullish(profile[f])}
          \cup {f \in StringProfileFields : Truthy(profile[f])}
          \cup {f \in BooleanProfileFields : NotNullish(profile[f])}
  IN [f \in keys |->
        IF f \in BooleanProfileFields
          THEN (IF Truthy(profile[f]) THEN Whole(1) ELSE Whole(0))
          ELSE profile[f]]

(***************************************************************************)
(* calculateImpact: the pieces of its body                                 *)
(***************************************************************************)
NoFormulasResult ==
  [ calculationStatus |-> "cannot_compute",
    reason |-> [kind |-> "No calculation formulas available for this policy"],
    missingInputs |-> << >> ]
\* variant: a missing input also reports a primary impact of 0
MissingInputsResultZero(missingInputs, primaryFormula) ==
  [ calculationStatus |-> "cannot_compute",
    reason |-> [ kind |-> "Missing required profile information",
                 labels |-> [m \in 1..Len(missingInputs) |->
                               missingInputs[m].fieldLabel] ],
    missingInputs |-> missingInputs,
    partialAnalysis |-> [requires |-> primaryFormula.requiredInputs],
    primaryImpactValue |-> Whole(0) ]
MissingInputsResult(missingInputs, primaryFormula) ==
  [ calculationStatus |-> "cannot_compute",
    reason |-> [ kind |-> "Missing required profile information",
                 labels |-> [m \in 1..Len(missingInputs) |->
                               missingInputs[m].fieldLabel] ],
    missingInputs |-> missingInputs,
    partialAnalysis |-> [requires |-> primaryFormula.requiredInputs] ]
\* variant: the reason carries the formulaId instead of the name
FailedFormulaResultById(formula) ==
  [ calculationStatus |-> "cannot_compute",
    reason |-> [kind |-> "Failed to evaluate formula", name |-> formula.formulaId],
    missingInputs |-> << >> ]
FailedFormulaResult(formula) ==
  [ calculationStatus |-> "cannot_compute",
    reason |-> [kind |-> "Failed to evaluate formula", name |-> formula.name],
    missingInputs |-> << >> ]
NoResultResult ==
  [ calculationStatus |-> "cannot_compute",
    reason |-> [kind |-> "Calculation did not produce a result"],
    missingInputs |-> << >> ]

\* variables[formula.formulaId] = result
BindResult(variables, formulaId, result) ==
  [key \in DOMAIN variables \cup {formulaId} |->
     IF key = formulaId THEN result ELSE variables[key]]
\* variables[input] || 0
InputOrZero(variables, input) ==
  LET value == GetProperty(variables, input) IN
  IF Truthy(value) THEN value ELSE Whole(0)
SeqToSet(s) == {s[j] : j \in 1..Len(s)}
CalculationStep(stepIndex, formula, variables, result) ==
  [ stepNumber |-> stepIndex + 1,
    description |-> formula.description,
    formula |-> formula.expression,
    inputs |-> [input \in SeqToSet(formula.requiredInputs) |->
                  InputOrZero(variables, input)],
    result |-> result,
    unit |-> formula.outputUnit ]
\* Math.round(value * 100) / 100
RoundToCents(value) ==
  NumDiv(MathRoundNum(NumMul(value, Whole(100))), Whole(100))
AdditionalDimension(formula, result) ==
  [ name |-> formula.name,
    value |-> RoundToCents(result),
    unit |-> formula.outputUnit,
    description |-> formula.description ]

\* primaryFormula.impactSemantics || 'benefit'
Semantics(primaryFormula) ==
  IF primaryFormula.impactSemantics = "absent" THEN "benefit"
  ELSE primaryFormula.impactSemantics
IsPositive(v) == NumLess(Zero(1), v)
\* the else-if chain that is taken when Math.abs(finalResult) > 100
LargeMagnitudeDirection(finalResult, semantics) ==
  IF semantics = "benefit"
    THEN (IF IsPositive(finalResult) THEN "positive" ELSE "negative")
    ELSE (IF IsPositive(finalResult) THEN "negative" ELSE "positive")
\* variant: every small impact is neutral
SmallMagnitudeDirectionNeutral(finalResult, semantics) == "neutral"
SmallMagnitudeDirection(finalResult, semantics) ==
  IF ~IsZero(finalResult)
    THEN (IF IsPositive(finalResult)
            THEN (IF semantics = "benefit" THEN "positive" ELSE "negative")
            ELSE (IF semantics = "benefit" THEN "negative" ELSE "positive"))
    ELSE "neutral"
\* variant: without the small-magnitude branch
ImpactDirectionLargeOnly(finalResult, semantics) ==
  LargeMagnitudeDirection(finalResult, semantics)
ImpactDirection(finalResult, semantics) ==
  IF ~NumLess(Whole(100), MathAbsNum(finalResult))
    THEN SmallMagnitudeDirection(finalResult, semantics)
    ELSE LargeMagnitudeDirection(finalResult, semantics)

AssumptionCaveat ==
  [ type |-> "assumption",
    description |-> "Household income estimated from individual income",
    severity |-> "medium",
    affectsConfidence |-> TRUE ]
PolicyUncertaintyCaveat ==
  [ type |-> "policy_uncertainty",
    description |-> "Policy effective date not specified",
    severity |-> "low",
    affectsConfidence |-> FALSE ]
Caveats(profile, parameters) ==
  (IF ~Truthy(profile[household_income]) /\ Truthy(profile[individual_income])
     THEN <<AssumptionCaveat>> ELSE << >>)
  \o (IF ~Truthy(parameters.effectiveDate)
        THEN <<PolicyUncertaintyCaveat>> ELSE << >>)
Context(profile, finalResult) ==
  [ asPercentageOfIncome |->
      IF Truthy(profile[household_income])
        THEN NumDiv(MathRoundNum(NumMul(
               NumDiv(MathAbsNum(finalResult), profile[household_income]),
               Whole(10000))), Whole(100))
        ELSE Null,
    monthlyEquivalent |-> RoundToCents(NumDiv(finalResult, Whole(12))),
    monthsOfHousingPayment |->
      IF Truthy(profile[annual_housing_payment])
        THEN RoundToCents(NumDiv(MathAbsNum(finalResult),
               NumDiv(profile[annual_housing_payment], Whole(12))))
        ELSE Null ]
\* variant: the confidence is lowered only by a caveat that says so
ConfidenceLevelByFlag(caveats) ==
  IF \A n \in 1..Len(caveats) : ~caveats[n].affectsConfidence
    THEN Num(9, 10) ELSE Num(7, 10)
\* caveats.length === 0 ? 0.9 : 0.7
ConfidenceLevel(caveats) ==
  IF Len(caveats) = 0 THEN Num(9, 10) ELSE Num(7, 10)
ComputedResult(profile, parameters, primaryFormula, variables, steps, dimensions, finalResult) ==
  [ calculationStatus |-> "computed",
    primaryImpactValue |-> RoundToCents(finalResult),
    impactUnit |-> IF primaryFormula.outputUnit = "dollars"
                     THEN "dollars_annual" ELSE "percentage",
    impactDirection |-> ImpactDirection(finalResult, Semantics(primaryFormula)),
    calculationBreakdown |->
      [ steps |-> steps,
        inputsUsed |-> [key \in DOMAIN variables
                                  \cap SeqToSet(primaryFormula.requiredInputs)
                          |-> variables[key]],
        formulaUsed |-> primaryFormula.expression ],
    caveats |-> Caveats(profile, parameters),
    confidenceLevel |-> ConfidenceLevel(Caveats(profile, parameters)),
    context |-> Context(profile, finalResult),
    additionalDimensions |->
      IF Len(dimensions) > 0
        THEN [defined |-> TRUE, items |-> dimensions]
        ELSE [defined |-> FALSE, items |-> << >>] ]

(***************************************************************************)
(* Inputs of the model: profiles, policy parameters and formulas.          *)
(***************************************************************************)
Formula(name, formulaId, expr, requiredInputs, outputUnit, impactSemantics) ==
  [ formulaId |-> formulaId,
    name |-> name,
    description |-> name,
    expression |-> expr,
    requiredInputs |-> requiredInputs,
    outputUnit |-> outputUnit,
    impactSemantics |-> impactSemantics ]
FormulaCatalogue ==
  { \* A: a = "household_income * 0.1"
    Formula("A", <<"a">>, household_income \o <<" ", "*", " ", "0", ".", "1">>,
            <<household_income>>, "dollars", "benefit"),
    \* B: b = "a / 12"
    Formula("B", <<"b">>, <<"a", " ", "/", " ", "1", "2">>,
            <<household_income>>, "dollars", "absent"),
    \* C: a = "household_income - 600"
    Formula("C", <<"a">>, household_income \o <<" ", "-", " ", "6", "0", "0">>,
            <<household_income, is_gig_worker>>, "dollars", "burden"),
    \* D: household_income = "household_income / 7"
    Formula("D", household_income, household_income \o <<" ", "/", " ", "7">>,
            <<household_income>>, "percentage", "burden"),
    \* E: max = "(household_income - 600) / 60"
    Formula("E", fn_max,
            <<"(">> \o household_income
              \o <<" ", "-", " ", "6", "0", "0", ")", " ", "/", " ", "6", "0">>,
            <<household_income, household_income>>, "dollars", "benefit"),
    \* F: c = "max / 12"
    Formula("F", <<"c">>, fn_max \o <<" ", "/", " ", "1", "2">>,
            << >>, "dollars", "benefit"),
    \* G: b = "individual_income / household_income"
    Formula("G", <<"b">>,
            individual_income \o <<" ", "/", " ">> \o household_income,
            <<individual_income, state>>, "percentage", "absent"),
    \* H: t = "household_income / 400000"
    Formula("H", <<"t">>,
            household_income \o <<" ", "/", " ", "4", "0", "0", "0", "0", "0">>,
            << <<"c", "i", "t", "y">> >>, "dollars", "burden"),
    \* I: d = "(household_income - 600) / 60"
    Formula("I", <<"d">>,
            <<"(">> \o household_income
              \o <<" ", "-", " ", "6", "0", "0", ")", " ", "/", " ", "6", "0">>,
            <<household_income>>, "dollars", "burden"),
    \* J: a = "a - 600"
    Formula("J", <<"a">>, <<"a", " ", "-", " ", "6", "0", "0">>,
            <<household_income>>, "percentage", "absent"),
    \* K: k = "household_income - 600"
    Formula("K", <<"k">>, household_income \o <<" ", "-", " ", "6", "0", "0">>,
            <<household_income>>, "dollars", "benefit"),
    \* L: l = "max()"
    Formula("L", <<"l">>, fn_max \o <<"(", ")">>, << >>, "dollars", "benefit"),
    \* M: m = "individual_income * 0.1"
    Formula("M", <<"m">>, individual_income \o <<" ", "*", " ", "0", ".", "1">>,
            <<individual_income>>, "dollars", "benefit"),
    \* N: n = "state * 0.1"
    Formula("N", <<"n">>, state \o <<" ", "*", " ", "0", ".", "1">>,
            <<state>>, "dollars", "benefit") }
MaxFormulas == 2
FormulaLists ==
  UNION {[1..n -> FormulaCatalogue] : n \in 0..MaxFormulas}

EmptyProfile == [f \in ProfileFields |-> Undefined]
Profiles ==
  { [EmptyProfile EXCEPT ![household_income] = hi,
                         ![individual_income] = ii,
                         ![annual_housing_payment] = ahp,
                         ![state] = st,
                         ![is_gig_worker] = gig,
                         ![<<"c", "i", "t", "y">>] = city] :
      hi \in {Undefined, Whole(0), Whole(1200), Scaled(Whole(3), 1)},
      ii \in {Undefined, Whole(500)},
      ahp \in {Null, Whole(0), Whole(600)},
      st \in {Str(<< >>), Str(<<"C", "A">>), Str(<<"1", "2">>)},
      gig \in {Bool(FALSE)},
      city \in {Str(<<"A", "u", "s", "t", "i", "n">>)} }
PolicyParameterSets ==
  { [effectiveDate |-> Undefined],
    [effectiveDate |-> Str(<<"2", "0", "2", "5">>)] }

(***************************************************************************)
(* State.  The first group is one call of calculateImpact: its arguments,  *)
(* its locals, its position (pc) and what it returned;                     *)
(* evaluatorInvocations counts the calls of evaluateExpression and         *)
(* evaluation keeps the outcome of the latest one.  The second group is    *)
(* one call of evaluateExpression on an expression typed fragment by       *)
(* fragment.                                                               *)
(***************************************************************************)
VARIABLES pc, profile, parameters, formulas, variables, steps,
          additionalDimensions, finalResult, i, returned,
          evaluatorInvocations, evaluation,
          expression, fragments, evalVariables, outcome,
          logBuffer, flushTimer, inFlight, inserted, logged, failures

calcVars ==
  <<pc, profile, parameters, formulas, variables, steps, additionalDimensions,
    finalResult, i, returned, evaluatorInvocations, evaluation>>
evalVars == <<expression, fragments, evalVariables, outcome>>
\* provenance.ts: the module's buffer and timer handle, the batches whose
\* insert is awaited, the rows of provenance_logs, and the numbers of
\* logProvenance calls and of failed inserts so far
provVars == <<logBuffer, flushTimer, inFlight, inserted, logged, failures>>
vars == <<calcVars, evalVars, provVars>>

NotEvaluated ==
  [value |-> Null, stage |-> "none", error |-> "none", divByZero |-> FALSE]
NotReturned == [calculationStatus |-> "none"]
ProvIdle ==
  /\ logBuffer = << >>
  /\ flushTimer = "null"
  /\ inFlight = {}
  /\ inserted = << >>
  /\ logged = 0
  /\ failures = 0

CalcIdle ==
  /\ pc = "idle"
  /\ profile = EmptyProfile
  /\ parameters = [effectiveDate |-> Undefined]
  /\ formulas = << >>
  /\ variables = << >>
  /\ steps = << >>
  /\ additionalDimensions = << >>
  /\ finalResult = Null
  /\ i = 0
  /\ returned = NotReturned
  /\ evaluatorInvocations = 0
  /\ evaluation = NotEvaluated

(***************************************************************************)
(* calculateImpact                                                         *)
(***************************************************************************)
Init ==
  /\ CalcIdle
  /\ ProvIdle
  /\ expression = << >>
  /\ fragments = 0
  /\ evalVariables = << >>
  /\ outcome = NotEvaluated

Call ==
  /\ pc = "idle"
  /\ profile' \in Profiles
  /\ parameters' \in PolicyParameterSets
  /\ formulas' \in FormulaLists
  /\ pc' = "called"
  /\ UNCHANGED <<variables, steps, additionalDimensions, finalResult, i,
                 returned, evaluatorInvocations, evaluation, evalVars, provVars>>

ReturnNoFormulas ==
  /\ pc = "called"
  /\ Len(formulas) = 0
  /\ returned' = NoFormulasResult
  /\ pc' = "done"
  /\ UNCHANGED <<profile, parameters, formulas, variables, steps,
                 additionalDimensions, finalResult, i, evaluatorInvocations,
                 evaluation, evalVars, provVars>>

ReturnMissingInputs ==
  /\ pc = "called"
  /\ Len(formulas) > 0
  /\ LET primaryFormula == formulas[1]
         missingInputs == checkRequiredInputs(profile, primaryFormula.requiredInputs)
     IN /\ Len(missingInputs) > 0
        /\ returned' = MissingInputsResult(missingInputs, primaryFormula)
  /\ pc' = "done"
  /\ UNCHANGED <<profile, parameters, formulas, variables, steps,
                 additionalDimensions, finalResult, i, evaluatorInvocations,
                 evaluation, evalVars, provVars>>

ExtractVariables ==
  /\ pc = "called"
  /\ Len(formulas) > 0
  /\ Len(checkRequiredInputs(profile, formulas[1].requiredInputs)) = 0
  /\ variables' = extractProfileVariables(profile)
  /\ steps' = << >>
  /\ additionalDimensions' = << >>
  /\ finalResult' = Null
  /\ i' = 0
  /\ pc' = "loop"
  /\ UNCHANGED <<profile, parameters, formulas, returned, evaluatorInvocations,
                 evaluation, evalVars, provVars>>

\* one iteration of the loop whose evaluateExpression returns null
FailWith(formula, result) ==
  /\ result.value = Null
  /\ evaluation' = result
  /\ returned' = FailedFormulaResult(formula)
FormulaFails ==
  /\ pc = "loop"
  /\ i < Len(formulas)
  /\ FailWith(formulas[i + 1],
              EvaluateOutcome(formulas[i + 1].expression, variables))
  /\ evaluatorInvocations' = evaluatorInvocations + 1
  /\ pc' = "done"
  /\ UNCHANGED <<profile, parameters, formulas, variables, steps,
                 additionalDimensions, finalResult, i, evalVars, provVars>>

\* one iteration of the loop whose evaluateExpression returns a number
SucceedWith(formula, result) ==
  /\ result.value # Null
  /\ evaluation' = result
  /\ variables' = BindResult(variables, formula.formulaId, result.value)
  /\ steps' = Append(steps, CalculationStep(i, formula, variables', result.value))
  /\ IF i = 0
       THEN /\ finalResult' = result.value
            /\ UNCHANGED additionalDimensions
       ELSE /\ additionalDimensions' =
                 Append(additionalDimensions,
                        AdditionalDimension(formula, result.value))
            /\ UNCHANGED finalResult
FormulaSucceeds ==
  /\ pc = "loop"
  /\ i < Len(formulas)
  /\ SucceedWith(formulas[i + 1],
                 EvaluateOutcome(formulas[i + 1].expression, variables))
  /\ evaluatorInvocations' = evaluatorInvocations + 1
  /\ i' = i + 1
  /\ UNCHANGED <<pc, profile, parameters, formulas, returned, evalVars, provVars>>

ReturnComputed ==
  /\ pc = "loop"
  /\ i = Len(formulas)
  /\ returned' =
       IF finalResult = Null THEN NoResultResult
       ELSE ComputedResult(profile, parameters, formulas[1], variables, steps,
                           additionalDimensions, finalResult)
  /\ pc' = "done"
  /\ UNCHANGED <<profile, parameters, formulas, variables, steps,
                 additionalDimensions, finalResult, i, evaluatorInvocations,
                 evaluation, evalVars, provVars>>

Next ==
  \/ Call
  \/ ReturnNoFormulas
  \/ ReturnMissingInputs
  \/ ExtractVariables
  \/ FormulaFails
  \/ FormulaSucceeds
  \/ ReturnComputed
Spec == Init /\ [][Next]_vars

(***************************************************************************)
(* evaluateExpression on its own, over every expression that is a seed     *)
(* followed by at most MaxFragments lexemes.                               *)
(***************************************************************************)
MaxFragments == 3
Lexemes ==
  { <<"0">>, <<"1">>, <<".">>, <<"+">>, <<"-">>, <<"*">>, <<"/">>, <<"(">>,
    <<")">>, <<",">>, <<" ">>, <<"x">>, <<"X">>, fn_max, toString, constructor }
SeedExpressions ==
  { << >>,
    fn_abs \o <<"(", "1", ",">>,
    fn_min \o <<"(", "1", ",", " ", "1", " ", "/", " ">> \o constructor \o <<"(">>,
    <<"1", " ", "/", " ", "(", "1", " ", "-">>,
    fn_min \o <<"(", "1", ",", " ">> \o fn_min \o <<"(">> }
EvalVariableMaps ==
  { (<<"x">> :> Whole(0)) @@ (fn_max :> Whole(3)),
    (<<"x">> :> Whole(2)) @@ (fn_max :> Whole(3)) }

EvalInit ==
  /\ CalcIdle
  /\ ProvIdle
  /\ expression \in SeedExpressions
  /\ fragments = 0
  /\ evalVariables \in EvalVariableMaps
  /\ outcome = NotEvaluated

TypeFragment ==
  /\ fragments < MaxFragments
  /\ \E f \in Lexemes : expression' = expression \o f
  /\ fragments' = fragments + 1
  /\ outcome' = NotEvaluated
  /\ UNCHANGED <<evalVariables, calcVars, provVars>>

Evaluate ==
  /\ outcome.stage = "none"
  /\ outcome' = EvaluateOutcome(expression, evalVariables)
  /\ UNCHANGED <<expression, fragments, evalVariables, calcVars, provVars>>

EvalNext == TypeFragment \/ Evaluate
EvalSpec == EvalInit /\ [][EvalNext]_vars

(***************************************************************************)
(* provenance.ts: logProvenance and flushProvenanceBuffer.  An entry is    *)
(* the number of the logProvenance call that passed it.  Each action is    *)
(* the code that runs between two awaits: a flush runs up to its first     *)
(* await with the call that started it, and the outcome of its insert      *)
(* arrives later.                                                          *)
(***************************************************************************)
BUFFER_FLUSH_THRESHOLD == 10
MaxEntries == 11
MaxFailures == 1
MaxInFlight == 2

ProvInit ==
  /\ CalcIdle
  /\ ProvIdle
  /\ expression = << >>
  /\ fragments = 0
  /\ evalVariables = << >>
  /\ outcome = NotEvaluated

\* flushProvenanceBuffer up to its first await, on a buffer that is not
\* empty: the timer is cleared and the whole buffer is taken
StartFlush(buffer) ==
  /\ Cardinality(inFlight) < MaxInFlight
  /\ flushTimer' = "null"
  /\ logBuffer' = << >>
  /\ inFlight' = inFlight \cup {buffer}

LogProvenance ==
  /\ logged < MaxEntries
  /\ logged' = logged + 1
  /\ IF Len(logBuffer) + 1 >= BUFFER_FLUSH_THRESHOLD
       THEN StartFlush(Append(logBuffer, logged + 1))
       ELSE /\ logBuffer' = Append(logBuffer, logged + 1)
            /\ flushTimer' = IF flushTimer = "null" THEN "armed" ELSE flushTimer
            /\ UNCHANGED inFlight
  /\ UNCHANGED <<inserted, failures, calcVars, evalVars>>

\* the setTimeout callback; a timer that has fired leaves its handle in
\* flushTimer until a flush clears it
TimerFires ==
  /\ flushTimer = "armed"
  /\ IF logBuffer = << >>
       THEN /\ flushTimer' = "fired"
            /\ UNCHANGED <<logBuffer, inFlight>>
       ELSE StartFlush(logBuffer)
  /\ UNCHANGED <<inserted, logged, failures, calcVars, evalVars>>

\* supabase.from('provenance_logs').insert(records): the table is unordered,
\* rows maps an entry to the number of rows that hold it
InsertRows(rows, entries) ==
  [e \in DOMAIN rows \cup SeqToSet(entries) |->
     (IF e \in DOMAIN rows THEN rows[e] ELSE 0) + Cardinality({p \in DOMAIN entries : entries[p] = e})]
InsertSucceeds ==
  /\ \E entries \in inFlight :
       /\ inFlight' = inFlight \ {entries}
       /\ inserted' = InsertRows(inserted, entries)
  /\ UNCHANGED <<logBuffer, flushTimer, logged, failures, calcVars, evalVars>>

\* variant: the failed batch is put back behind what the buffer holds
RequeueBehind(entries, buffer) == buffer \o entries
\* logBuffer.unshift(...entries)
Requeue(entries, buffer) == entries \o buffer
\* the insert returned an error, or createClient or the insert threw
InsertFails ==
  /\ failures < MaxFailures
  /\ failures' = failures + 1
  /\ \E entries \in inFlight :
       /\ inFlight' = inFlight \ {entries}
       /\ logBuffer' = Requeue(entries, logBuffer)
  /\ UNCHANGED <<flushTimer, inserted, logged, calcVars, evalVars>>

ProvNext ==
  \/ LogProvenance
  \/ TimerFires
  \/ InsertSucceeds
  \/ InsertFails
ProvSpec == ProvInit /\ [][ProvNext]_vars
\* the timer and the inserts do not wait forever; no further call of
\* logProvenance is assumed
ProvFairSpec ==
  /\ ProvSpec
  /\ WF_vars(TimerFires)
  /\ WF_vars(InsertSucceeds \/ InsertFails)

(***************************************************************************)
(* Properties of calculateImpact, checked under Spec.                      *)
(***************************************************************************)
Done == pc = "done"
Computed == Done /\ returned.calculationStatus = "computed"
CannotCompute == Done /\ returned.calculationStatus = "cannot_compute"
ComputedFields ==
  {"calculationStatus", "primaryImpactValue", "impactUnit", "impactDirection",
   "calculationBreakdown", "caveats", "confidenceLevel", "context",
   "additionalDimensions"}
CannotComputeFields == {"calculationStatus", "reason", "missingInputs"}
\* the latest call of evaluateExpression returned null
EvaluationFailed == evaluation.stage \in {"tokenize", "parse", "check"}

\* undefined, null or the empty string
AbsentValue(v) == v.k = "undefined" \/ v.k = "null" \/ (v.k = "str" /\ v.s = << >>)
\* the names in the primary formula's requiredInputs whose profile value is
\* absent, one per occurrence, in requiredInputs order
PrimaryMissingNames ==
  LET Absent(name) == AbsentValue(GetProperty(profile, name))
  IN SelectSeq(formulas[1].requiredInputs, Absent)

C2_NoPartialResults ==
  /\ EvaluationFailed =>
       /\ CannotCompute
       /\ returned.reason =
            [kind |-> "Failed to evaluate formula",
             name |-> formulas[evaluatorInvocations].name]
       /\ evaluatorInvocations = Len(steps) + 1
       /\ returned.missingInputs = << >>
       /\ DOMAIN returned \cap (ComputedFields \ {"calculationStatus"}) = {}
  /\ Computed =>
       /\ ~EvaluationFailed
       /\ evaluatorInvocations = Len(formulas)
       /\ Len(steps) = Len(formulas)
\* the second formula of a list failed after the first one succeeded
C2_Witness ==
  /\ CannotCompute
  /\ EvaluationFailed
  /\ evaluatorInvocations = 2
  /\ Len(steps) = 1
  /\ formulas[1].name # formulas[2].name

\* position p of s starts an identifier: an identifier-start character that
\* no identifier to its left runs into
StartsIdentifier(s, p) ==
  /\ s[p] \in IdentStartChars
  /\ \A q \in 1..(p - 1) :
       (\A r \in q..(p - 1) : s[r] \in IdentPartChars)
         => (\A r \in q..(p - 1) : s[r] \in Digits)
IdentifierEnd(s, p) ==
  CHOOSE r \in p..Len(s) :
    /\ \A u \in p..r : s[u] \in IdentPartChars
    /\ r = Len(s) \/ s[r + 1] \notin IdentPartChars
\* the identifiers that occur in s
Identifiers(s) ==
  { SubSeq(s, p, IdentifierEnd(s, p)) :
      p \in {q \in 1..Len(s) : StartsIdentifier(s, q)} }

\* C3: formulas are evaluated in list order; after formula n evaluates its
\* unrounded result is the step's result and is bound under formula n's
\* formulaId, and the next formula to be evaluated, wherever it names the
\* formulaId of an earlier formula n, reads exactly formula n's result.
C3_ChainedFormulas ==
  pc = "loop" =>
    /\ Len(steps) = evaluatorInvocations
    /\ \A n \in 1..Len(steps) : steps[n].formula = formulas[n].expression
    /\ Len(steps) > 0 =>
         /\ evaluation.value = steps[Len(steps)].result
         /\ variables[formulas[Len(steps)].formulaId] = steps[Len(steps)].result
    /\ Len(steps) < Len(formulas) =>
         \A n \in 1..Len(steps) :
           formulas[n].formulaId \in Identifiers(formulas[Len(steps) + 1].expression)
             => tokenize(formulas[n].formulaId, numericVariables(variables))
                  = [ok |-> TRUE, why |-> "none",
                     tokens |-> <<NumberToken(steps[n].result)>>]

\* the value evaluateExpression hands back is null or a finite number
EvaluatorValue(v) == v = Null \/ (v.k = "num" /\ ~v.boxed)
\* C4: whatever calculateImpact returns is a computed or a cannot_compute
\* result; the empty list, a missing required input and a failed evaluation
\* each return cannot_compute with their reason; and every evaluation, the
\* one the loop is about to make and the one it made last, hands back null
\* or a finite number, null also for what the parser throws.
C4_NeverThrows ==
  /\ (pc = "loop" /\ Len(steps) < Len(formulas)) =>
       EvaluatorValue(evaluateExpression(formulas[Len(steps) + 1].expression,
                                         variables))
  /\ EvaluatorValue(evaluation.value)
  /\ Done =>
       /\ returned.calculationStatus \in {"computed", "cannot_compute"}
       /\ Len(formulas) = 0 =>
            /\ CannotCompute
            /\ returned.reason.kind
                 = "No calculation formulas available for this policy"
       /\ (Len(formulas) > 0 /\ PrimaryMissingNames # << >>) =>
            /\ CannotCompute
            /\ returned.reason.kind = "Missing required profile information"
       /\ EvaluationFailed =>
            /\ CannotCompute
            /\ returned.reason.kind = "Failed to evaluate formula"
  /\ EvaluationFailed => evaluation.value = Null
  /\ evaluation.stage = "ok" => evaluation.value.k = "num"
\* the parser threw while a formula was evaluated, and the call returned
C4_Witness ==
  /\ CannotCompute
  /\ evaluation.stage = "parse"
  /\ evaluation.value = Null

\* C5: what calculateImpact returns has exactly one of two shapes: computed
\* with a numeric primaryImpactValue, impactUnit, impactDirection, a breakdown
\* with steps, and caveats, and without reason or missingInputs; or
\* cannot_compute with reason and missingInputs (and at most partialAnalysis)
\* and without any field of a computed result.  Nothing is returned before
\* the call is over.
C5_ExactlyOneShape ==
  IF Done
    THEN \/ /\ returned.calculationStatus = "computed"
            /\ DOMAIN returned = ComputedFields
            /\ IsNumberType(returned.primaryImpactValue)
            /\ returned.impactUnit \in {"dollars_annual", "percentage"}
            /\ returned.impactDirection \in {"positive", "negative", "neutral"}
            /\ Len(returned.calculationBreakdown.steps) = Len(formulas)
            /\ returned.calculationBreakdown.formulaUsed = formulas[1].expression
            /\ DOMAIN returned.caveats = 1..Len(returned.caveats)
         \/ /\ returned.calculationStatus = "cannot_compute"
            /\ DOMAIN returned \in
                 {CannotComputeFields, CannotComputeFields \cup {"partialAnalysis"}}
            /\ returned.reason.kind \in
                 {"No calculation formulas available for this policy",
                  "Missing required profile information",
                  "Failed to evaluate formula"}
            /\ DOMAIN returned.missingInputs = 1..Len(returned.missingInputs)
    ELSE returned = NotReturned
\* a computed result with an additional dimension and a caveat
C5_Witness ==
  /\ Computed
  /\ returned.additionalDimensions.defined
  /\ Len(returned.caveats) > 0

LargeRuleAlone ==
  IF formulas[1].impactSemantics \in {"benefit", "absent"}
    THEN (IF finalResult.n > 0 THEN "positive" ELSE "negative")
    ELSE (IF finalResult.n > 0 THEN "negative" ELSE "positive")
Evaluated == outcome.stage # "none"

\* C8: an evaluation in which some '/' was applied to a right operand whose
\* value is 0 returns null.
C8_DivisionByZeroFails ==
  (Evaluated /\ outcome.divByZero) => outcome.value = Null

\* the identifiers of the expression that are neither one of the six function
\* names in some letter case nor a key of the variable map
UnknownIdentifiers ==
  { id \in Identifiers(expression) :
      toLowerCase(id) \notin MATH_FUNCTIONS /\ id \notin DOMAIN evalVariables }
\* C9: the evaluation of an expression that contains an identifier which is
\* neither one of the six function names (in any letter case) nor a key of
\* the variable map returns null.
C9_UnknownIdentifiersFail ==
  (Evaluated /\ UnknownIdentifiers # {}) => outcome.value = Null

\* how many '(' are open after s[p..], starting from depth; -1 once a ')'
\* has no '(' to close
RECURSIVE OpenParens(_, _, _)
OpenParens(s, p, depth) ==
  IF depth < 0 \/ p > Len(s) THEN depth
  ELSE OpenParens(s, p + 1,
         IF s[p] = "(" THEN depth + 1
         ELSE IF s[p] = ")" THEN depth - 1
         ELSE depth)
ProperlyMatched(s) == OpenParens(s, 1, 0) = 0
\* C10: the evaluation of an expression whose parentheses are not properly
\* matched returns null.
C10_MalformedParenthesesFail ==
  (Evaluated /\ ~ProperlyMatched(expression)) => outcome.value = Null

\* the parser, started at the first token, parsed one complete expression
\* and left a token unconsumed
LeavesTokens(tokens, result) == result.ok /\ result.pos <= Len(tokens)
TrailingInput(tokenized) ==
  tokenized.ok /\ LeavesTokens(tokenized.tokens, parseExpression(tokenized.tokens, 1))
\* C11: when the expression parsed from the first token leaves a token
\* unconsumed, the evaluation returns null, not the value of the parsed
\* prefix.
C11_TrailingInputFails ==
  (Evaluated /\ TrailingInput(tokenize(expression, numericVariables(evalVariables))))
    => /\ outcome.value = Null
       /\ outcome.stage = "parse"
       /\ outcome.error = "Unexpected tokens after expression"
\* a variable followed by '(' was evaluated
C11_Witness ==
  /\ Evaluated
  /\ expression = <<"x", "(">>
  /\ outcome.error = "Unexpected tokens after expression"
  /\ outcome.value = Null

\* a finite number
IsFiniteValue(v) == v.k = "num" /\ ~v.boxed
\* C12: every value the evaluator returns is null or a finite number, and in
\* a computed result every step result and the primary impact value are finite.
C12_FiniteResults ==
  /\ (evaluation.stage # "none") =>
        (evaluation.value = Null \/ IsFiniteValue(evaluation.value))
  /\ Computed =>
        /\ \A n \in 1..Len(returned.calculationBreakdown.steps) :
              IsFiniteValue(returned.calculationBreakdown.steps[n].result)
        /\ IsFiniteValue(returned.primaryImpactValue)

(***************************************************************************)
(* A reference evaluator for the grammar of numbers, variables, + - * /,   *)
(* unary + and -, and parentheses.  It reads the expression on its own:    *)
(* a binary + or - outside parentheses binds loosest and the last one      *)
(* splits the expression, then the last * or /, then a leading sign, then  *)
(* a pair of parentheses around the whole, then a single operand.          *)
(***************************************************************************)
RefToken(t, c, v) == [t |-> t, c |-> c, v |-> v]
RefNumberEnd(s, p) ==
  IF SkipWhile(s, p, Digits) < Len(s) /\ s[SkipWhile(s, p, Digits)] = "."
       /\ s[SkipWhile(s, p, Digits) + 1] \in Digits
    THEN SkipWhile(s, SkipWhile(s, p, Digits) + 1, Digits)
    ELSE SkipWhile(s, p, Digits)
\* the value of the decimal literal s[p..e-1]
RefNumber(s, p, e) ==
  IF SkipWhile(s, p, Digits) = e
    THEN Whole(DigitsValue(s, p, e - 1))
    ELSE Num(DigitsValue(s, p, SkipWhile(s, p, Digits) - 1)
               * Pow10(e - SkipWhile(s, p, Digits) - 1)
               + DigitsValue(s, SkipWhile(s, p, Digits) + 1, e - 1),
             Pow10(e - SkipWhile(s, p, Digits) - 1))
RECURSIVE RefLex(_, _, _, _)
RefLex(s, p, bound, acc) ==
  IF p > Len(s) THEN [ok |-> TRUE, toks |-> acc]
  ELSE IF s[p] \in WhitespaceChars THEN RefLex(s, p + 1, bound, acc)
  ELSE IF s[p] \in {"+", "-", "*", "/"}
    THEN RefLex(s, p + 1, bound, Append(acc, RefToken("op", s[p], Null)))
  ELSE IF s[p] = "("
    THEN RefLex(s, p + 1, bound, Append(acc, RefToken("lp", s[p], Null)))
  ELSE IF s[p] = ")"
    THEN RefLex(s, p + 1, bound, Append(acc, RefToken("rp", s[p], Null)))
  ELSE IF s[p] \in Digits
    THEN IF RefNumberEnd(s, p) <= Len(s) /\ s[RefNumberEnd(s, p)] = "."
           THEN [ok |-> FALSE, toks |-> << >>]
           ELSE RefLex(s, RefNumberEnd(s, p), bound,
                       Append(acc, RefToken("num", "n",
                                            RefNumber(s, p, RefNumberEnd(s, p)))))
  ELSE IF s[p] \in IdentStartChars
            /\ SubSeq(s, p, IdentifierEnd(s, p)) \in DOMAIN bound
    THEN RefLex(s, IdentifierEnd(s, p) + 1, bound,
                Append(acc, RefToken("num", "v",
                                     bound[SubSeq(s, p, IdentifierEnd(s, p))])))
  ELSE [ok |-> FALSE, toks |-> << >>]

RefDepth(t, p) ==
  Cardinality({q \in 1..(p - 1) : t[q].t = "lp"})
    - Cardinality({q \in 1..(p - 1) : t[q].t = "rp"})
\* the binary operators of ops that stand outside every parenthesis
RefBinaryAt(t, ops) ==
  { p \in 2..(Len(t) - 1) :
      /\ t[p].t = "op" /\ t[p].c \in ops
      /\ t[p - 1].t \in {"num", "rp"}
      /\ RefDepth(t, p) = 0 }
RefLast(S) == CHOOSE p \in S : \A q \in S : q <= p
RefNone == [ok |-> FALSE, v |-> Null]
RefSome(v) == [ok |-> TRUE, v |-> v]
RefApply(op, l, r) ==
  IF ~l.ok \/ ~r.ok THEN RefNone
  ELSE CASE op = "+" -> RefSome(NumAdd(l.v, r.v))
         [] op = "-" -> RefSome(NumAdd(l.v, NumNeg(r.v)))
         [] op = "*" -> RefSome(NumMul(l.v, r.v))
         [] op = "/" -> IF IsZero(r.v) THEN RefNone ELSE RefSome(NumDiv(l.v, r.v))
RefSign(op, r) ==
  IF ~r.ok THEN RefNone ELSE IF op = "-" THEN RefSome(NumNeg(r.v)) ELSE r
RECURSIVE RefEval(_)
RefSplit(t, p) ==
  RefApply(t[p].c, RefEval(SubSeq(t, 1, p - 1)), RefEval(SubSeq(t, p + 1, Len(t))))
RefEval(t) ==
  IF Len(t) = 0 THEN RefNone
  ELSE IF RefBinaryAt(t, {"+", "-"}) # {}
    THEN RefSplit(t, RefLast(RefBinaryAt(t, {"+", "-"})))
  ELSE IF RefBinaryAt(t, {"*", "/"}) # {}
    THEN RefSplit(t, RefLast(RefBinaryAt(t, {"*", "/"})))
  ELSE IF t[1].t = "op" /\ t[1].c \in {"+", "-"}
    THEN RefSign(t[1].c, RefEval(Tail(t)))
  ELSE IF t[1].t = "lp" /\ t[Len(t)].t = "rp"
    THEN RefEval(SubSeq(t, 2, Len(t) - 1))
  ELSE IF Len(t) = 1 /\ t[1].t = "num" THEN RefSome(t[1].v)
  ELSE RefNone
RefValueOf(lexed) == IF lexed.ok THEN RefEval(lexed.toks) ELSE RefNone
\* the reference value of the expression under the bound variables
Reference(s, bound) == RefValueOf(RefLex(s, 1, bound, << >>))
SameNumber(a, b) == a # Null /\ ((IsZero(a) /\ IsZero(b)) \/ a = b)

\* C13: an expression of numbers, bound variables, + - * /, unary signs and
\* parentheses that has a reference value evaluates to that value.
C13_MatchesReference ==
  (Evaluated /\ Reference(expression, evalVariables).ok)
    => SameNumber(outcome.value, Reference(expression, evalVariables).v)

\* the six names of the function whitelist
Whitelist == {fn_min, fn_max, fn_abs, fn_round, fn_floor, fn_ceil}
\* the identifier that starts at p is followed by an opening parenthesis
OpensCall(s, p) ==
  /\ SkipWhile(s, IdentifierEnd(s, p) + 1, WhitespaceChars) <= Len(s)
  /\ s[SkipWhile(s, IdentifierEnd(s, p) + 1, WhitespaceChars)] = "("
IdentifierAt(s, p) == SubSeq(s, p, IdentifierEnd(s, p))
IdentifierStarts(s) == {p \in 1..Len(s) : StartsIdentifier(s, p)}
\* C14: an evaluation returns null when the expression calls a name whose
\* lower-cased form is not one of the six whitelisted names, and when a
\* whitelisted name in it is not followed by an opening parenthesis.
C14_FunctionWhitelist ==
  Evaluated =>
    \A p \in IdentifierStarts(expression) :
      /\ (toLowerCase(IdentifierAt(expression, p)) \notin Whitelist
            /\ OpensCall(expression, p)) => outcome.value = Null
      /\ (toLowerCase(IdentifierAt(expression, p)) \in Whitelist
            /\ ~OpensCall(expression, p)) => outcome.value = Null

\* C15: while the formulas of a call are evaluated, every variable derived
\* from the profile keeps the value extractProfileVariables gave it.
C15_ProfileVariablesReadOnly ==
  (pc = "loop") =>
    \A f \in DOMAIN extractProfileVariables(profile) :
      /\ f \in DOMAIN variables
      /\ variables[f] = extractProfileVariables(profile)[f]

\* the names the primary formula requires that are not in the variable set
\* built from the profile
AbsentFromVariableSet ==
  { n \in 1..Len(formulas[1].requiredInputs) :
      formulas[1].requiredInputs[n] \notin DOMAIN extractProfileVariables(profile) }
\* C16: a call whose primary formula requires a name that is absent from the
\* map of extractProfileVariables returns cannot_compute with a Missing Input
\* entry for that name.
C16_AbsentVariableIsMissing ==
  (Done /\ Len(formulas) > 0) =>
    \A n \in AbsentFromVariableSet :
      /\ CannotCompute
      /\ \E m \in 1..Len(returned.missingInputs) :
           returned.missingInputs[m].field = formulas[1].requiredInputs[n]

\* r is x rounded to 2 decimals: a finite multiple of 0.01 at most 0.005
\* away from x (a number of the order of 10^307 is its own rounding)
RoundedTo2(r, x) ==
  /\ IsFiniteValue(r)
  /\ IF x.h = 1 THEN r = x
     ELSE /\ r.h = 0
          /\ (100 * r.n) % Den(r) = 0
          /\ ~NumLess(Num(1, 200), MathAbsNum(NumAdd(r, NumNeg(x))))
\* the variable set after the first j formulas of the call have been bound
RECURSIVE BoundAfter(_)
BoundAfter(j) ==
  IF j = 0 THEN extractProfileVariables(profile)
  ELSE BindResult(BoundAfter(j - 1), formulas[j].formulaId,
                  evaluateExpression(formulas[j].expression, BoundAfter(j - 1)))
\* C17: a computed result over n formulas has n steps in formula order,
\* numbered 1..n, each with the unrounded value of its formula; its
\* primaryImpactValue is the first step's result rounded to 2 decimals; its
\* additionalDimensions are the other n-1 formulas in order with their results
\* rounded to 2 decimals, and are absent when n = 1.
C17_StepsAndDimensions ==
  Computed =>
    /\ Len(returned.calculationBreakdown.steps) = Len(formulas)
    /\ \A n \in 1..Len(formulas) :
         /\ returned.calculationBreakdown.steps[n].stepNumber = n
         /\ returned.calculationBreakdown.steps[n].formula = formulas[n].expression
         /\ returned.calculationBreakdown.steps[n].result =
              evaluateExpression(formulas[n].expression, BoundAfter(n - 1))
    /\ RoundedTo2(returned.primaryImpactValue,
                  returned.calculationBreakdown.steps[1].result)
    /\ IF Len(formulas) = 1
         THEN ~returned.additionalDimensions.defined
         ELSE /\ returned.additionalDimensions.defined
              /\ Len(returned.additionalDimensions.items) = Len(formulas) - 1
              /\ \A n \in 2..Len(formulas) :
                   /\ returned.additionalDimensions.items[n - 1].name = formulas[n].name
                   /\ RoundedTo2(returned.additionalDimensions.items[n - 1].value,
                                 returned.calculationBreakdown.steps[n].result)

HasCaveat(type, severity) ==
  \E n \in 1..Len(returned.caveats) :
    returned.caveats[n].type = type /\ returned.caveats[n].severity = severity
\* C18: a computed result carries the assumption caveat (medium) exactly when
\* the profile has no household income (0 counts as supplied) and has an
\* individual income, and the policy_uncertainty caveat (low) exactly when
\* the parameters have no effective date.
C18_CaveatConditions ==
  Computed =>
    /\ HasCaveat("assumption", "medium")
         <=> (AbsentValue(profile[household_income])
                /\ ~AbsentValue(profile[individual_income]))
    /\ HasCaveat("policy_uncertainty", "low")
         <=> AbsentValue(parameters.effectiveDate)

\* C19: the confidenceLevel of a computed result is 0.9 when its caveat list
\* is empty and 0.7 when it is not, whatever the caveats in it are.
C19_ConfidenceLevel ==
  Computed =>
    returned.confidenceLevel =
      IF returned.caveats = << >> THEN Num(9, 10) ELSE Num(7, 10)
\* only the policy_uncertainty caveat, whose affectsConfidence is false
C19_Witness ==
  /\ Computed
  /\ Len(returned.caveats) = 1
  /\ returned.caveats[1].type = "policy_uncertainty"
  /\ ~returned.caveats[1].affectsConfidence
  /\ returned.confidenceLevel = Num(7, 10)

\* C20: in the context of a computed result monthlyEquivalent is the primary
\* result divided by 12 and rounded to 2 decimals; asPercentageOfIncome is
\* not null exactly when the profile has a household income, and
\* monthsOfHousingPayment exactly when it has an annual housing payment; and
\* no context value comes from a division by zero.
C20_ContextBlock ==
  Computed =>
    /\ RoundedTo2(returned.context.monthlyEquivalent,
                  NumDiv(finalResult, Whole(12)))
    /\ (returned.context.asPercentageOfIncome # Null)
         <=> ~AbsentValue(profile[household_income])
    /\ (returned.context.monthsOfHousingPayment # Null)
         <=> ~AbsentValue(profile[annual_housing_payment])
    /\ (returned.context.asPercentageOfIncome # Null)
         => ~IsZero(profile[household_income])
    /\ (returned.context.monthsOfHousingPayment # Null)
         => ~IsZero(profile[annual_housing_payment])

\* a run of digits and dots of the expression holds two decimal points
TwoPointRun(s) ==
  \E p \in 1..Len(s) : \E q \in (p + 1)..Len(s) :
    /\ s[p] = "." /\ s[q] = "."
    /\ \A r \in p..q : s[r] \in Digits \cup {"."}
\* C21: the evaluation of an expression in which a run of digits and dots
\* has more than one decimal point returns null.
C21_NumberLiterals ==
  (Evaluated /\ TwoPointRun(expression)) => outcome.value = Null

\* the whitelisted name that starts at p is called with nothing between its
\* parentheses
EmptyCallAt(s, p) ==
  /\ toLowerCase(IdentifierAt(s, p)) \in Whitelist
  /\ OpensCall(s, p)
  /\ SkipWhile(s, SkipWhile(s, IdentifierEnd(s, p) + 1, WhitespaceChars) + 1,
               WhitespaceChars) <= Len(s)
  /\ s[SkipWhile(s, SkipWhile(s, IdentifierEnd(s, p) + 1, WhitespaceChars) + 1,
                 WhitespaceChars)] = ")"
\* C22: the evaluation of an expression that contains a call of a
\* whitelisted function with an empty argument list returns null.
C22_EmptyArgumentListFails ==
  (Evaluated /\ \E p \in IdentifierStarts(expression) : EmptyCallAt(expression, p))
    => outcome.value = Null

\* the string-valued variables that extractProfileVariables takes from the
\* profile of the call
StringVariables ==
  StringProfileFields \cap DOMAIN extractProfileVariables(profile)
\* C23: no formula whose expression names a string-valued profile variable
\* evaluates to a number: none of them ever gets a calculation step.
C23_StringsNeverArithmetic ==
  \A n \in 1..Len(steps) :
    Identifiers(formulas[n].expression) \cap StringVariables = {}

\* C24: in every calculation step, each name of the formula's requiredInputs
\* that was bound when the formula was evaluated is recorded in the step's
\* inputs with the value it had then, and a name that was unbound then is not
\* recorded.
C24_StepInputsEcho ==
  \A n \in 1..Len(steps) :
    \A name \in SeqToSet(formulas[n].requiredInputs) :
      IF name \in DOMAIN BoundAfter(n - 1)
        THEN /\ name \in DOMAIN steps[n].inputs
             /\ steps[n].inputs[name] = BoundAfter(n - 1)[name]
        ELSE name \notin DOMAIN steps[n].inputs

\* C25: the expression that consists of the name of a variable bound to a
\* finite number evaluates to that number.
C25_VariablesReadable ==
  (Evaluated /\ expression \in DOMAIN evalVariables
     /\ IsFiniteValue(evalVariables[expression]))
    => SameNumber(outcome.value, evalVariables[expression])

\* the names formula k's expression takes from its own formulaId or from the
\* formulaId of a formula after it, numeric profile variables apart
ForwardNames(k) ==
  (Identifiers(formulas[k].expression)
     \cap {formulas[n].formulaId : n \in k..Len(formulas)})
    \ {f \in NumericProfileFields : f \in DOMAIN extractProfileVariables(profile)}
\* the last of the first k formulas that has the formulaId name
LastWithId(name, k) ==
  CHOOSE n \in 1..k :
    /\ formulas[n].formulaId = name
    /\ \A m \in (n + 1)..k : formulas[m].formulaId # name
\* C26: a formula whose expression names its own formulaId or that of a later
\* formula (not a numeric profile variable) never evaluates: when the loop
\* reaches it the call returns cannot_compute naming it; and where the next
\* formula names a formulaId that two earlier formulas share, it reads the
\* result of the later of the two.
C26_OnlyLaterFormulasSee ==
  /\ \A k \in 1..Len(formulas) :
       ForwardNames(k) # {} =>
         /\ Len(steps) < k
         /\ (Done /\ evaluatorInvocations = k) =>
              /\ CannotCompute
              /\ returned.reason =
                   [kind |-> "Failed to evaluate formula", name |-> formulas[k].name]
  /\ (pc = "loop" /\ Len(steps) < Len(formulas)) =>
       \A name \in Identifiers(formulas[Len(steps) + 1].expression) :
         Cardinality({n \in 1..Len(steps) : formulas[n].formulaId = name}) >= 2
           => tokenize(name, numericVariables(variables))
                = [ok |-> TRUE, why |-> "none",
                   tokens |-> <<NumberToken(steps[LastWithId(name, Len(steps))].result)>>]

\* C27: the inputsUsed of a computed result has exactly the names of the
\* primary formula's requiredInputs as keys, each with the value the profile
\* gives that variable (a boolean as 1 or 0), which is also the value step 1
\* recorded for it.
C27_InputsUsed ==
  Computed =>
    /\ DOMAIN returned.calculationBreakdown.inputsUsed
         = SeqToSet(formulas[1].requiredInputs)
    /\ \A key \in DOMAIN returned.calculationBreakdown.inputsUsed :
         /\ key \in DOMAIN extractProfileVariables(profile)
         /\ returned.calculationBreakdown.inputsUsed[key]
              = extractProfileVariables(profile)[key]
         /\ key \in DOMAIN returned.calculationBreakdown.steps[1].inputs
         /\ returned.calculationBreakdown.inputsUsed[key]
              = returned.calculationBreakdown.steps[1].inputs[key]

\* C28: the impactDirection of a computed result is neutral exactly when the
\* reported primaryImpactValue is 0, and is never mixed.
C28_DirectionMatchesValue ==
  Computed =>
    /\ (returned.impactDirection = "neutral")
         <=> IsZero(returned.primaryImpactValue)
    /\ returned.impactDirection # "mixed"

\* number of places that hold entry m: positions of the buffer, positions
\* of the batches whose insert is awaited, rows of provenance_logs
CountIn(entries, m) == Cardinality({q \in DOMAIN entries : entries[q] = m})
RECURSIVE CountInBatches(_, _)
CountInBatches(batches, m) ==
  IF batches = {} THEN 0
  ELSE LET batch == CHOOSE r \in batches : TRUE
       IN CountIn(batch, m) + CountInBatches(batches \ {batch}, m)
PlacesOf(m) ==
  CountIn(logBuffer, m) + CountInBatches(inFlight, m) + (IF m \in DOMAIN inserted THEN inserted[m] ELSE 0)
Held == SeqToSet(logBuffer) \cup UNION {SeqToSet(batch) : batch \in inFlight} \cup DOMAIN inserted
ExactlyOnePlace == Held = 1..logged /\ \A m \in 1..logged : PlacesOf(m) = 1
FailedBatchAhead ==
  failures' # failures =>
    \E batch \in inFlight : inFlight' = inFlight \ {batch} /\ logBuffer' = batch \o logBuffer

\* C29: every entry passed to logProvenance is at all times in exactly one
\* place (the buffer, one batch whose insert is awaited, or one row of
\* provenance_logs), so none is dropped and none is inserted twice; and a
\* failed insert puts its whole batch back at the front of the buffer, ahead
\* of the entries logged while the flush was awaited.
C29_BufferConservation == []ExactlyOnePlace /\ [][FailedBatchAhead]_vars
\* the first of two concurrent flushes failed after the second was inserted
\* and a third entry was logged: the failed batch stands ahead of that entry
C29_Witness ==
  /\ failures = 1
  /\ inFlight = {}
  /\ logBuffer = <<1, 3>>
  /\ DOMAIN inserted = {2}

\* C30: whenever the buffer is not empty and no flush is awaited, a flush
\* timer is pending; so every buffered entry is eventually handed to an
\* insert with no further call of logProvenance, also after a failed insert.
TimerPendingWhenIdle == (logBuffer # << >> /\ inFlight = {}) => flushTimer = "armed"
C30_EventualFlush ==
  /\ []TimerPendingWhenIdle
  /\ \A m \in 1..MaxEntries : (m \in SeqToSet(logBuffer)) ~> (m \notin SeqToSet(logBuffer))
====
